---- MODULE Spec2Model ----
(***************************************************************************)
(* PortfolioBarGenerator (vnpy_portfoliostrategy/utility.py) as a state    *)
(* machine.                                                                *)
(*                                                                         *)
(* Python objects are modelled with their identity: every BarData lives in *)
(* `heap` and is named by its reference (its index, 0 is None); every dict *)
(* that is handed to a callback (self.bars, self.window_bars,              *)
(* self.finished_hour_bars, a BarSet given to update_bars) lives in        *)
(* `dicts` and is named by its index.  A dict is the sequence of its       *)
(* <<key, value>> items in insertion order.  An assignment to a field of a *)
(* bar changes heap[ref], so it is seen through every dict that holds the  *)
(* reference; `self.bars = {}` binds the field to a newly allocated dict   *)
(* and leaves the old one as it is.                                        *)
(*                                                                         *)
(* A method is an operator from the state before the call to the state     *)
(* after it (a record of all fields, the two heaps and the callbacks'      *)
(* logs); an exception is recorded in `raised` and ends the call where it  *)
(* is raised, keeping the assignments made before it.                      *)
(***************************************************************************)
EXTENDS Integers, Sequences, FiniteSets, TLC

VARIABLES
    bars,                \* self.bars: the dict (index in dicts) of in-progress minute bars
    last_ticks,          \* self.last_ticks: vt_symbol -> last accepted tick
    hour_bars,           \* self.hour_bars: vt_symbol -> reference of the in-progress hour bar, or None
    finished_hour_bars,  \* self.finished_hour_bars: the dict (index in dicts) of staged hour bars
    window,              \* self.window
    window_bars,         \* self.window_bars: the dict (index in dicts) of in-progress window bars
    interval,            \* self.interval
    interval_count,      \* self.interval_count
    last_dt,             \* self.last_dt
    heap,                \* the BarData objects, by reference
    dicts,               \* the dict objects that callbacks and callers see, by index
    on_bars,             \* the calls received by the on_bars callback, oldest first
    on_window_bars,      \* the calls received by the on_window_bars callback, oldest first
    on_hour_bars,        \* the calls received by the method on_hour_bars, oldest first
    raised,              \* the exception the last call ended with ("" if it returned)
    feed,                \* the calls made on the generator so far, oldest first
    pre                  \* the state in which the last call was made

vars == <<bars, last_ticks, hour_bars, finished_hour_bars, window, window_bars,
          interval, interval_count, last_dt, heap, dicts, on_bars,
          on_window_bars, on_hour_bars, raised, feed, pre>>

-----------------------------------------------------------------------------
(* Bounds of the model *)

(* Calls in a run of the tick stream, of minute BarSets at arbitrary        *)
(* minutes, of minute BarSets at consecutive minutes, of minute BarSets on *)
(* the hour path, and of ticks and BarSets mixed.                          *)
MaxTicks == 3

MaxBarSets == 3

MaxRun == 5

MaxHourSets == 3

MaxCalls == 3

MaxLongRun == 12

MaxWiredTicks == 4

-----------------------------------------------------------------------------
(* Python values *)

None == [none |-> TRUE]

Null == 0

Max(a, b) == IF a >= b THEN a ELSE b

Min(a, b) == IF a <= b THEN a ELSE b

MINUTE == "1m"

HOUR == "1h"

DAILY == "d"

(* BarData.interval when the constructor is not given one (None). *)
NoInterval == "None"

(* datetime *)

DateTime(d, h, m, s, us) ==
    [day |-> d, hour |-> h, minute |-> m, second |-> s, microsecond |-> us]

ReplaceSecond(dt) == [dt EXCEPT !.second = 0, !.microsecond = 0]

ReplaceMinute(dt) == [dt EXCEPT !.minute = 0, !.second = 0, !.microsecond = 0]

(* dict: the items in insertion order *)

EmptyDict == <<>>

Keys(d) == {d[i][1] : i \in 1..Len(d)}

IndexOf(d, k) == CHOOSE i \in 1..Len(d) : d[i][1] = k

Get(d, k, default) == IF k \in Keys(d) THEN d[IndexOf(d, k)][2] ELSE default

SetItem(d, k, v) ==
    IF k \in Keys(d)
    THEN [d EXCEPT ![IndexOf(d, k)] = <<k, v>>]
    ELSE Append(d, <<k, v>>)

Values(d) == [i \in 1..Len(d) |-> d[i][2]]

(* The BarSet a dict of bar references stands for: vt_symbol -> BarData.   *)
Resolve(h, d) == [k \in Keys(d) |-> h[Get(d, k, Null)]]

-----------------------------------------------------------------------------
(* vnpy.trader.object.BarData as the generator constructs it: the fields   *)
(* not given to the constructor take the dataclass defaults.               *)

BarData(vt_symbol, dt, ivl, o, h, l, c, v, t, oi) ==
    [vt_symbol |-> vt_symbol, datetime |-> dt, interval |-> ivl,
     open_price |-> o, high_price |-> h, low_price |-> l, close_price |-> c,
     volume |-> v, turnover |-> t, open_interest |-> oi]

TickData(vt_symbol, dt, price, v, t, oi) ==
    [vt_symbol |-> vt_symbol, datetime |-> dt, last_price |-> price,
     volume |-> v, turnover |-> t, open_interest |-> oi]

(* A tick whose last price is absent has no last_price field. *)
TickDataNoPrice(vt_symbol, dt, v, t, oi) ==
    [vt_symbol |-> vt_symbol, datetime |-> dt,
     volume |-> v, turnover |-> t, open_interest |-> oi]

-----------------------------------------------------------------------------
(* The state as one record, for the operators that model the methods. *)

Self ==
    [bars |-> bars, last_ticks |-> last_ticks, hour_bars |-> hour_bars,
     finished_hour_bars |-> finished_hour_bars, window |-> window,
     window_bars |-> window_bars, interval |-> interval,
     interval_count |-> interval_count, last_dt |-> last_dt,
     heap |-> heap, dicts |-> dicts, on_bars |-> on_bars,
     on_window_bars |-> on_window_bars, on_hour_bars |-> on_hour_bars,
     raised |-> raised, consumer |-> "returns"]

(* PortfolioBarGenerator.__init__: the three dicts that can be handed out  *)
(* are allocated as dicts 1, 2, 3.                                         *)
Construct(w, ivl) ==
    [bars |-> 1, last_ticks |-> EmptyDict, hour_bars |-> EmptyDict,
     finished_hour_bars |-> 2, window |-> w, window_bars |-> 3,
     interval |-> ivl, interval_count |-> 0, last_dt |-> None,
     heap |-> <<>>, dicts |-> <<EmptyDict, EmptyDict, EmptyDict>>,
     on_bars |-> <<>>, on_window_bars |-> <<>>, on_hour_bars |-> <<>>,
     raised |-> "", consumer |-> "returns"]

(* A callback invoked with dict d: the consumer receives the reference and *)
(* sees the BarSet as it is at that moment.  The callbacks are the         *)
(* consumer's functions given at construction.  What they do during a call *)
(* is the field `consumer` of the state the call starts from: "returns",   *)
(* they record the call and return; "raises", they record it and raise;    *)
(* "update_bars", on_bars passes its BarSet on to self.update_bars, the    *)
(* way a strategy feeds one generator with ticks and with its own bars.    *)
Received(S, d) == [dict |-> d, seen |-> Resolve(S.heap, S.dicts[d])]

Raise(S, exception) == [S EXCEPT !.raised = exception]

CallOnWindowBars(S, d) ==
    LET S1 == [S EXCEPT !.on_window_bars = Append(@, Received(S, d))]
    IN  IF S.consumer = "raises" THEN Raise(S1, "ConsumerError") ELSE S1

-----------------------------------------------------------------------------
(* update_bars: the minute-window path *)

(* `self.window_bars = {}` and its like: bind the field to a new dict. *)
NewDict(S) == Len(S.dicts) + 1

(* Mutant: a new window bar is built with the volume and the turnover of   *)
(* the incoming bar, which are then added again.                           *)
FoldIntoWindowBar_CountedTwice(S, vt, bar, dt) ==
    LET found == Get(S.dicts[S.window_bars], vt, Null)
        ref == IF found = Null THEN Len(S.heap) + 1 ELSE found
        bar0 == IF found = Null
                THEN BarData(bar.vt_symbol, dt, NoInterval, bar.open_price,
                             bar.high_price, bar.low_price, 0,
                             bar.volume, bar.turnover, 0)
                ELSE [S.heap[ref] EXCEPT
                        !.high_price = Max(@, bar.high_price),
                        !.low_price = Min(@, bar.low_price)]
        bar1 == [bar0 EXCEPT !.close_price = bar.close_price,
                             !.volume = @ + bar.volume,
                             !.turnover = @ + bar.turnover,
                             !.open_interest = bar.open_interest]
    IN  [S EXCEPT
            !.heap = IF found = Null THEN Append(@, bar1) ELSE [@ EXCEPT ![ref] = bar1],
            !.dicts = IF found = Null
                      THEN [@ EXCEPT ![S.window_bars] = SetItem(@, vt, ref)]
                      ELSE @]

(* The running update of a window bar, lines 87-112 and 199-218: a new bar *)
(* takes dt and the open, high and low of the incoming bar; an existing    *)
(* one widens its high and low; then both take the close and the open      *)
(* interest and add the volume and the turnover.                           *)
FoldIntoWindowBar(S, vt, bar, dt) ==
    LET found == Get(S.dicts[S.window_bars], vt, Null)
        ref == IF found = Null THEN Len(S.heap) + 1 ELSE found
        bar0 == IF found = Null
                THEN BarData(bar.vt_symbol, dt, NoInterval, bar.open_price,
                             bar.high_price, bar.low_price, 0, 0, 0, 0)
                ELSE [S.heap[ref] EXCEPT
                        !.high_price = Max(@, bar.high_price),
                        !.low_price = Min(@, bar.low_price)]
        bar1 == [bar0 EXCEPT !.close_price = bar.close_price,
                             !.volume = @ + bar.volume,
                             !.turnover = @ + bar.turnover,
                             !.open_interest = bar.open_interest]
    IN  [S EXCEPT
            !.heap = IF found = Null THEN Append(@, bar1) ELSE [@ EXCEPT ![ref] = bar1],
            !.dicts = IF found = Null
                      THEN [@ EXCEPT ![S.window_bars] = SetItem(@, vt, ref)]
                      ELSE @]

(* for vt_symbol, bar in bars.items(), lines 86-112 *)
RECURSIVE MinuteWindowLoop(_, _, _)
MinuteWindowLoop(S, items, i) ==
    IF i > Len(items)
    THEN S
    ELSE LET bar == S.heap[items[i][2]]
         IN  MinuteWindowLoop(
                FoldIntoWindowBar(S, items[i][1], bar, ReplaceSecond(bar.datetime)),
                items, i + 1)

(* self.on_window_bars(self.window_bars); self.window_bars = {} *)
FinishWindowBars(S) ==
    LET S1 == CallOnWindowBars(S, S.window_bars)
    IN  IF S1.raised # ""
        THEN S1
        ELSE [S1 EXCEPT !.dicts = Append(@, EmptyDict),
                        !.window_bars = NewDict(S1)]

(* Mutant: a window of 0 never closes instead of dividing by zero. *)
CheckMinuteWindow_ZeroNeverCloses(S, items) ==
    IF items = <<>>
    THEN Raise(S, "UnboundLocalError")
    ELSE IF S.window # 0
            /\ (S.heap[items[Len(items)][2]].datetime.minute + 1) % S.window = 0
         THEN FinishWindowBars(S)
         ELSE S

(* Mutant: the window closes on the minute value itself. *)
CheckMinuteWindow_NoPlusOne(S, items) ==
    IF items = <<>>
    THEN Raise(S, "UnboundLocalError")
    ELSE IF S.window = 0
         THEN Raise(S, "ZeroDivisionError")
         ELSE IF S.heap[items[Len(items)][2]].datetime.minute % S.window = 0
              THEN FinishWindowBars(S)
              ELSE S

(* Lines 114-117, `if not (bar.datetime.minute + 1) % self.window`: bar is *)
(* the loop variable, the last item's bar; it is unbound after a loop over *)
(* no item, and the modulo divides by self.window.                         *)
CheckMinuteWindow(S, items) ==
    IF items = <<>>
    THEN Raise(S, "UnboundLocalError")
    ELSE IF S.window = 0
         THEN Raise(S, "ZeroDivisionError")
         ELSE IF (S.heap[items[Len(items)][2]].datetime.minute + 1) % S.window = 0
              THEN FinishWindowBars(S)
              ELSE S

update_bar_minute_window(S, d) ==
    CheckMinuteWindow(MinuteWindowLoop(S, S.dicts[d], 1), S.dicts[d])

-----------------------------------------------------------------------------
(* update_bars: the hour-window path *)

(* Lines 198-218 *)
RECURSIVE HourWindowLoop(_, _, _)
HourWindowLoop(S, items, i) ==
    IF i > Len(items)
    THEN S
    ELSE LET bar == S.heap[items[i][2]]
         IN  HourWindowLoop(FoldIntoWindowBar(S, items[i][1], bar, bar.datetime),
                            items, i + 1)

(* Mutant: the rollover counter is not set back to 0 at an emission. *)
CountHour_NoReset(S) ==
    LET S1 == [S EXCEPT !.interval_count = @ + 1]
    IN  IF S1.window = 0
        THEN Raise(S1, "ZeroDivisionError")
        ELSE IF S1.interval_count % S1.window = 0
             THEN FinishWindowBars(S1)
             ELSE S1

(* Lines 220-224 *)
CountHour(S) ==
    LET S1 == [S EXCEPT !.interval_count = @ + 1]
    IN  IF S1.window = 0
        THEN Raise(S1, "ZeroDivisionError")
        ELSE IF S1.interval_count % S1.window = 0
             THEN FinishWindowBars([S1 EXCEPT !.interval_count = 0])
             ELSE S1

CallOnHourBars(S, d) == [S EXCEPT !.on_hour_bars = Append(@, Received(S, d))]

(* on_hour_bars, called with dict d *)
OnHourBars(S, d) ==
    LET S1 == CallOnHourBars(S, d)
    IN  IF S1.window = 1
        THEN CallOnWindowBars(S1, d)
        ELSE CountHour(HourWindowLoop(S1, S1.dicts[d], 1))

NewHourBar(bar) ==
    BarData(bar.vt_symbol, ReplaceMinute(bar.datetime), NoInterval,
            bar.open_price, bar.high_price, bar.low_price, bar.close_price,
            bar.volume, bar.turnover, bar.open_interest)

FoldIntoHourBar(hour_bar, bar) ==
    [hour_bar EXCEPT !.high_price = Max(@, bar.high_price),
                     !.low_price = Min(@, bar.low_price),
                     !.close_price = bar.close_price,
                     !.volume = @ + bar.volume,
                     !.turnover = @ + bar.turnover,
                     !.open_interest = bar.open_interest]

(* self.finished_hour_bars[vt_symbol] = hour_bar *)
Stage(S, vt, ref) ==
    [S EXCEPT !.dicts[S.finished_hour_bars] = SetItem(@, vt, ref)]

(* Mutant: the minute-59 bar is staged without being folded. *)
LastMinuteOfHour_NoFold(S, vt, bar, ref) ==
    [Stage(S, vt, ref) EXCEPT !.hour_bars = SetItem(@, vt, Null)]

(* Lines 144-154: minute 59 *)
LastMinuteOfHour(S, vt, bar, ref) ==
    [Stage([S EXCEPT !.heap[ref] = FoldIntoHourBar(@, bar)], vt, ref)
        EXCEPT !.hour_bars = SetItem(@, vt, Null)]

(* Mutant: the incoming bar is folded into the old hour bar before it is   *)
(* staged.                                                                 *)
NewHour_FoldFirst(S, vt, bar, ref) ==
    LET S1 == Stage([S EXCEPT !.heap[ref] = FoldIntoHourBar(@, bar)], vt, ref)
    IN  [S1 EXCEPT !.heap = Append(@, NewHourBar(bar)),
                   !.hour_bars = SetItem(@, vt, Len(S1.heap) + 1)]

(* Lines 157-176: a bar of another hour *)
NewHour(S, vt, bar, ref) ==
    LET S1 == Stage(S, vt, ref)
    IN  [S1 EXCEPT !.heap = Append(@, NewHourBar(bar)),
                   !.hour_bars = SetItem(@, vt, Len(S1.heap) + 1)]

(* Lines 122-186: one instrument's minute bar *)
UpdateHourBar(S, vt, bar) ==
    LET ref == Get(S.hour_bars, vt, Null)
    IN  IF ref = Null
        THEN [S EXCEPT !.heap = Append(@, NewHourBar(bar)),
                       !.hour_bars = SetItem(@, vt, Len(S.heap) + 1)]
        ELSE IF bar.datetime.minute = 59
             THEN LastMinuteOfHour(S, vt, bar, ref)
             ELSE IF bar.datetime.hour # S.heap[ref].datetime.hour
                  THEN NewHour(S, vt, bar, ref)
                  ELSE [S EXCEPT !.heap[ref] = FoldIntoHourBar(@, bar)]

RECURSIVE HourLoop(_, _, _)
HourLoop(S, items, i) ==
    IF i > Len(items)
    THEN S
    ELSE HourLoop(UpdateHourBar(S, items[i][1], S.heap[items[i][2]]), items, i + 1)

(* Mutant: the staging dict is not replaced after the hand-off. *)
PushHourBars_NoClear(S) ==
    IF S.dicts[S.finished_hour_bars] # EmptyDict
    THEN OnHourBars(S, S.finished_hour_bars)
    ELSE S

(* Lines 188-191: hand the staged bars over, then self.finished_hour_bars  *)
(* = {} unless on_hour_bars raised.                                        *)
PushHourBars(S) ==
    IF S.dicts[S.finished_hour_bars] # EmptyDict
    THEN LET S1 == OnHourBars(S, S.finished_hour_bars)
         IN  IF S1.raised # ""
             THEN S1
             ELSE [S1 EXCEPT !.dicts = Append(@, EmptyDict),
                             !.finished_hour_bars = NewDict(S1)]
    ELSE S

update_bar_hour_window(S, d) == PushHourBars(HourLoop(S, S.dicts[d], 1))

(* Mutant: only Interval.HOUR takes the hour path. *)
update_bars_OnlyHour(S, d) ==
    IF S.interval = HOUR
    THEN update_bar_hour_window(S, d)
    ELSE update_bar_minute_window(S, d)

update_bars(S, d) ==
    IF S.interval = MINUTE
    THEN update_bar_minute_window(S, d)
    ELSE update_bar_hour_window(S, d)

-----------------------------------------------------------------------------
(* update_tick *)

CallOnBars(S, d) ==
    LET S1 == [S EXCEPT !.on_bars = Append(@, Received(S, d))]
    IN  CASE S.consumer = "raises" -> Raise(S1, "ConsumerError")
          [] S.consumer = "update_bars" -> update_bars(S1, d)
          [] OTHER -> S1

(* Mutant: only an absent price is skipped (`tick.last_price is None`). *)
HasLastPrice_NotNone(tick) == "last_price" \in DOMAIN tick

(* `not tick.last_price`: None and 0 are false, every other number true. *)
HasLastPrice(tick) == "last_price" \in DOMAIN tick /\ tick.last_price # 0

(* Mutant: the rollover test compares seconds instead of minutes. *)
MinuteChanged_Second(ldt, dt) == ldt # None /\ ldt.second # dt.second

(* `self.last_dt and self.last_dt.minute != tick.datetime.minute` *)
MinuteChanged(ldt, dt) == ldt # None /\ ldt.minute # dt.minute

(* for bar in self.bars.values(): bar.datetime = bar.datetime.replace(...) *)
TruncateBars(h, d) ==
    [r \in 1..Len(h) |->
        IF \E i \in 1..Len(d) : d[i][2] = r
        THEN [h[r] EXCEPT !.datetime = ReplaceSecond(@)]
        ELSE h[r]]

(* Mutant: the emitted dict is kept as the in-progress dict. *)
FinishBars_NoReset(S) ==
    CallOnBars([S EXCEPT !.heap = TruncateBars(S.heap, S.dicts[S.bars])], S.bars)

(* The rollover block: truncate, self.on_bars(self.bars), self.bars = {}; *)
(* an exception out of on_bars ends the method before the reset.          *)
FinishBars(S) ==
    LET S1 == [S EXCEPT !.heap = TruncateBars(S.heap, S.dicts[S.bars])]
        S2 == CallOnBars(S1, S1.bars)
    IN  IF S2.raised # ""
        THEN S2
        ELSE [S2 EXCEPT !.dicts = Append(@, EmptyDict),
                        !.bars = Len(S2.dicts) + 1]

NewMinuteBar(tick) ==
    BarData(tick.vt_symbol, tick.datetime, MINUTE, tick.last_price,
            tick.last_price, tick.last_price, tick.last_price, 0, 0,
            tick.open_interest)

FoldTickIntoBar(bar, tick) ==
    [bar EXCEPT !.high_price = Max(@, tick.last_price),
                !.low_price = Min(@, tick.last_price),
                !.close_price = tick.last_price,
                !.open_interest = tick.open_interest,
                !.datetime = tick.datetime]

(* Mutant: the difference is not floored at zero. *)
VolumeChange_Unclamped(now, before) == now - before

(* max(tick.volume - last_tick.volume, 0) *)
VolumeChange(now, before) == Max(now - before, 0)

(* Mutant: the increments replace the bar's volume and turnover instead of *)
(* being added to them.                                                    *)
AddVolume_Replaces(bar, tick, last_tick) ==
    IF last_tick # None
    THEN [bar EXCEPT !.volume = VolumeChange(tick.volume, last_tick.volume),
                     !.turnover = VolumeChange(tick.turnover, last_tick.turnover)]
    ELSE bar

(* Mutant: without a previous tick the cumulative values are added whole. *)
AddVolume_FromZero(bar, tick, last_tick) ==
    [bar EXCEPT
        !.volume = @ + VolumeChange(tick.volume,
                        IF last_tick # None THEN last_tick.volume ELSE 0),
        !.turnover = @ + VolumeChange(tick.turnover,
                        IF last_tick # None THEN last_tick.turnover ELSE 0)]

AddVolume(bar, tick, last_tick) ==
    IF last_tick # None
    THEN [bar EXCEPT !.volume = @ + VolumeChange(tick.volume, last_tick.volume),
                     !.turnover = @ + VolumeChange(tick.turnover, last_tick.turnover)]
    ELSE bar

(* Lines 47-75: fold the tick into its instrument's bar and remember it. *)
FoldTick(S, tick) ==
    LET vt == tick.vt_symbol
        found == Get(S.dicts[S.bars], vt, Null)
        ref == IF found = Null THEN Len(S.heap) + 1 ELSE found
        bar0 == IF found = Null
                THEN NewMinuteBar(tick)
                ELSE FoldTickIntoBar(S.heap[ref], tick)
        bar1 == AddVolume(bar0, tick, Get(S.last_ticks, vt, None))
    IN  [S EXCEPT
            !.heap = IF found = Null THEN Append(@, bar1) ELSE [@ EXCEPT ![ref] = bar1],
            !.dicts = IF found = Null
                      THEN [@ EXCEPT ![S.bars] = SetItem(@, vt, ref)]
                      ELSE @,
            !.last_ticks = SetItem(@, vt, tick),
            !.last_dt = tick.datetime]

(* Mutant: a tick without a price still becomes the last-seen timestamp. *)
update_tick_StampsSkipped(S, tick) ==
    IF ~HasLastPrice(tick)
    THEN [S EXCEPT !.last_dt = tick.datetime]
    ELSE LET S1 == IF MinuteChanged(S.last_dt, tick.datetime)
                   THEN FinishBars(S)
                   ELSE S
         IN  IF S1.raised # "" THEN S1 ELSE FoldTick(S1, tick)

update_tick(S, tick) ==
    IF ~HasLastPrice(tick)
    THEN S
    ELSE LET S1 == IF MinuteChanged(S.last_dt, tick.datetime)
                   THEN FinishBars(S)
                   ELSE S
         IN  IF S1.raised # "" THEN S1 ELSE FoldTick(S1, tick)

-----------------------------------------------------------------------------
(* The calls: one action per public method. *)

Becomes(S) ==
    /\ bars' = S.bars
    /\ last_ticks' = S.last_ticks
    /\ hour_bars' = S.hour_bars
    /\ finished_hour_bars' = S.finished_hour_bars
    /\ window' = S.window
    /\ window_bars' = S.window_bars
    /\ interval' = S.interval
    /\ interval_count' = S.interval_count
    /\ last_dt' = S.last_dt
    /\ heap' = S.heap
    /\ dicts' = S.dicts
    /\ on_bars' = S.on_bars
    /\ on_window_bars' = S.on_window_bars
    /\ on_hour_bars' = S.on_hour_bars
    /\ raised' = S.raised

Enter == [Self EXCEPT !.raised = ""]

(* The same, in a call during which the callbacks behave as c. *)
EnterWith(c) == [Enter EXCEPT !.consumer = c]

(* What the caller knows of a call: its name, its argument, how it ended   *)
(* and how many calls each callback has received when it ends.             *)
Called(name, arg, S) ==
    [name |-> name, arg |-> arg, raised |-> S.raised,
     on_bars |-> Len(S.on_bars), on_window_bars |-> Len(S.on_window_bars)]

TickCall(S0, tick) ==
    /\ Becomes(update_tick(S0, tick))
    /\ feed' = Append(feed, Called("update_tick", tick, update_tick(S0, tick)))
    /\ pre' = [Self EXCEPT !.consumer = S0.consumer]

UpdateTick(tick) == TickCall(Enter, tick)

(* The caller builds a BarSet: a new dict of new BarData objects, one per  *)
(* item of `given`, keyed by vt_symbol in that order.                      *)
GiveBars(S, given) ==
    [S EXCEPT
        !.heap = @ \o given,
        !.dicts = Append(@, [i \in 1..Len(given) |->
                                <<given[i].vt_symbol, Len(S.heap) + i>>])]

BarsCall(S, given) ==
    LET S0 == GiveBars(S, given)
        d == Len(S0.dicts)
        S1 == update_bars(S0, d)
    IN  /\ Becomes(S1)
        /\ feed' = Append(feed, Called("update_bars", [dict |-> d, given |-> given], S1))
        /\ pre' = GiveBars([Self EXCEPT !.consumer = S.consumer], given)

UpdateBars(given) == BarsCall(Enter, given)

Starts(S) ==
    /\ bars = S.bars
    /\ last_ticks = S.last_ticks
    /\ hour_bars = S.hour_bars
    /\ finished_hour_bars = S.finished_hour_bars
    /\ window = S.window
    /\ window_bars = S.window_bars
    /\ interval = S.interval
    /\ interval_count = S.interval_count
    /\ last_dt = S.last_dt
    /\ heap = S.heap
    /\ dicts = S.dicts
    /\ on_bars = S.on_bars
    /\ on_window_bars = S.on_window_bars
    /\ on_hour_bars = S.on_hour_bars
    /\ raised = S.raised

Constructed(w, ivl) ==
    /\ Starts(Construct(w, ivl))
    /\ feed = <<>>
    /\ pre = None

-----------------------------------------------------------------------------
(* The tick stream: two instruments; the instants of the rollover example, *)
(* one a whole hour after the first and one in the minute after that;      *)
(* prices with cumulative counters that rise and fall; ticks with a        *)
(* negative price, with a zero price and without a price, in either        *)
(* minute.                                                                 *)

Symbols == {"A", "B"}

TickTimes ==
    {DateTime(1, 10, 0, 5, 0), DateTime(1, 10, 0, 40, 250),
     DateTime(1, 10, 1, 2, 0), DateTime(1, 11, 0, 10, 0),
     DateTime(1, 11, 1, 0, 0)}

Quotes == {<<1, 100, 10, 7>>, <<2, 90, 30, 8>>, <<3, 150, 20, 7>>}

QuietTimes == {DateTime(1, 10, 0, 5, 0), DateTime(1, 10, 1, 2, 0)}

Ticks ==
    {TickData(s, dt, q[1], q[2], q[3], q[4]) :
        s \in Symbols, dt \in TickTimes, q \in Quotes}
    \cup {TickData("B", dt, -1, 100, 10, 7) : dt \in QuietTimes}
    \cup {TickData("A", dt, 0, 150, 30, 8) : dt \in QuietTimes}
    \cup {TickDataNoPrice("B", dt, 150, 30, 8) : dt \in QuietTimes}

(* TrendFollowingStrategy: PortfolioBarGenerator(self.on_bars), fed by on_tick. *)
InitTick == Constructed(0, MINUTE)

NextTick == Len(feed) < MaxTicks /\ \E tick \in Ticks : UpdateTick(tick)

SpecTick == InitTick /\ [][NextTick]_vars

-----------------------------------------------------------------------------
(* Minute BarSets: none, one or both instruments, in either order, all     *)
(* bars of a set stamped alike.                                            *)

MinuteBar(s, dt, c) ==
    BarData(s, dt, MINUTE, c[1], c[2], c[3], c[4], c[5], c[6], c[7])

Candle1 == <<2, 3, 1, 2, 5, 50, 7>>

Candle2 == <<4, 5, 2, 3, 2, 10, 8>>

BarSetsAt(dt) ==
    {<<>>,
     <<MinuteBar("A", dt, Candle1)>>,
     <<MinuteBar("B", dt, Candle2)>>,
     <<MinuteBar("A", dt, Candle2), MinuteBar("B", dt, Candle1)>>,
     <<MinuteBar("B", dt, Candle1), MinuteBar("A", dt, Candle1)>>}

(* The minute-window path: any window from 0 to 5 but 4, BarSets of any of *)
(* four minutes in any order, or one BarSet for each minute from 10:00 on. *)

Windows == {0, 1, 2, 3, 5}

MinuteTimes ==
    {DateTime(1, 10, 0, 0, 0), DateTime(1, 10, 1, 30, 0),
     DateTime(1, 10, 4, 0, 0), DateTime(1, 10, 59, 0, 0)}

RunTime(i) == DateTime(1, 10, i - 1, 0, 0)

InRun ==
    \A i \in 1..Len(feed) :
        /\ feed[i].arg.given # <<>>
        /\ feed[i].arg.given[1].datetime = RunTime(i)

InitMinute == \E w \in Windows : Constructed(w, MINUTE)

NextMinute ==
    \/ /\ Len(feed) < MaxBarSets
       /\ \E dt \in MinuteTimes : \E given \in BarSetsAt(dt) : UpdateBars(given)
    \/ /\ Len(feed) < MaxRun
       /\ InRun
       /\ \E given \in BarSetsAt(RunTime(Len(feed) + 1)) \ {<<>>} : UpdateBars(given)

SpecMinute == InitMinute /\ [][NextMinute]_vars

(* A long run on the minute-window path: one BarSet for every minute from  *)
(* 10:55 on, into hour 11, with a window that divides 60 and one that does *)
(* not.                                                                    *)

LongRunWindows == {5, 7}

LongRunStart == DateTime(1, 10, 55, 0, 0)

NextMinuteOf(dt) ==
    IF dt.minute = 59
    THEN [dt EXCEPT !.hour = @ + 1, !.minute = 0]
    ELSE [dt EXCEPT !.minute = @ + 1]

LongRunNow ==
    IF feed = <<>>
    THEN LongRunStart
    ELSE NextMinuteOf(feed[Len(feed)].arg.given[1].datetime)

InitLongRun == \E w \in LongRunWindows : Constructed(w, MINUTE)

NextLongRun ==
    /\ Len(feed) < MaxLongRun
    /\ \E given \in {<<MinuteBar("A", LongRunNow, Candle1)>>,
                      <<MinuteBar("A", LongRunNow, Candle2),
                        MinuteBar("B", LongRunNow, Candle1)>>} :
            UpdateBars(given)

SpecLongRun == InitLongRun /\ [][NextLongRun]_vars

(* The hour-window path: windows 0 to 3, BarSets of the middle and the     *)
(* last minute of hour 10 and the first and the last of hour 11.           *)

HourWindows == {0, 1, 2, 3}

HourPathTimes ==
    {DateTime(1, 10, 30, 0, 0), DateTime(1, 10, 59, 0, 0),
     DateTime(1, 11, 0, 0, 0), DateTime(1, 11, 59, 0, 0)}

InitHour == \E w \in HourWindows : Constructed(w, HOUR)

NextHour ==
    /\ Len(feed) < MaxHourSets
    /\ \E dt \in HourPathTimes : \E given \in BarSetsAt(dt) : UpdateBars(given)

SpecHour == InitHour /\ [][NextHour]_vars

(* Any configuration, ticks and minute BarSets in any order. *)

FewTicks ==
    {TickData(s, dt, q[1], q[2], q[3], q[4]) :
        s \in Symbols,
        dt \in {DateTime(1, 10, 0, 5, 0), DateTime(1, 10, 1, 2, 0)},
        q \in {<<1, 100, 10, 7>>, <<0, 150, 30, 8>>}}

FewBarSets ==
    UNION {BarSetsAt(dt) \ {<<MinuteBar("B", dt, Candle2)>>} :
            dt \in {DateTime(1, 10, 0, 0, 0), DateTime(1, 10, 59, 0, 0)}}

Init ==
    \E w \in HourWindows : \E ivl \in {MINUTE, HOUR, DAILY} : Constructed(w, ivl)

Next ==
    \/ Len(feed) < MaxCalls /\ \E tick \in FewTicks : UpdateTick(tick)
    \/ Len(feed) < MaxCalls /\ \E given \in FewBarSets : UpdateBars(given)

Spec == Init /\ [][Next]_vars

(* The same calls with a consumer whose callbacks may raise during a call: *)
(* the exception leaves update_tick or update_bars at the callback.        *)

Consumers == {"returns", "raises"}

PricedTicks == {tick \in FewTicks : tick.last_price # 0}

InitRaises == \E w \in {1, 2} : \E ivl \in {MINUTE, HOUR} : Constructed(w, ivl)

NextRaises ==
    \/ /\ Len(feed) < MaxCalls
       /\ \E c \in Consumers : \E tick \in PricedTicks :
            TickCall(EnterWith(c), tick)
    \/ /\ Len(feed) < MaxCalls
       /\ \E c \in Consumers : \E given \in FewBarSets :
            BarsCall(EnterWith(c), given)

SpecRaises == InitRaises /\ [][NextRaises]_vars

(* One generator for both stages: the strategy's on_bars passes the minute *)
(* BarSet on to update_bars of the generator that emitted it.              *)

WiredWindows == {0, 1, 2}

WiredTicks ==
    {tick \in Ticks :
        /\ tick.datetime # DateTime(1, 10, 0, 40, 250)
        /\ "last_price" \in DOMAIN tick => tick.last_price \in {0, 1}}

InitWired == \E w \in WiredWindows : Constructed(w, MINUTE)

NextWired ==
    /\ Len(feed) < MaxWiredTicks
    /\ \E tick \in WiredTicks : TickCall(EnterWith("update_bars"), tick)

SpecWired == InitWired /\ [][NextWired]_vars

-----------------------------------------------------------------------------
(* Vocabulary of the properties *)

Call == feed[Len(feed)]

IsTick(c) == c.name = "update_tick"

(* A tick the generator does not skip. *)
Accepted(c) == IsTick(c) /\ HasLastPrice(c.arg)

AcceptedTicks(n) == SelectSeq(SubSeq(feed, 1, n), Accepted)

AcceptedTicksOf(s, n) ==
    SelectSeq(SubSeq(feed, 1, n), LAMBDA c : Accepted(c) /\ c.arg.vt_symbol = s)

Last(seq) == seq[Len(seq)]

(* The BarSets on_bars received during the last call, as the consumer saw them. *)
BarsEmitted == SubSeq(on_bars, Len(pre.on_bars) + 1, Len(on_bars))

WindowBarsEmitted ==
    SubSeq(on_window_bars, Len(pre.on_window_bars) + 1, Len(on_window_bars))

(* The in-progress minute BarSet, now and before the last call. *)
InProgress == Resolve(heap, dicts[bars])

InProgressBefore == Resolve(pre.heap, pre.dicts[pre.bars])

RECURSIVE SumOver(_, _)
SumOver(f, S) ==
    IF S = {} THEN 0
    ELSE LET x == CHOOSE y \in S : TRUE IN f[x] + SumOver(f, S \ {x})

(* The volume (turnover) of all bars of instrument s, emitted or in progress. *)
TotalVolume(h, s) ==
    SumOver([r \in 1..Len(h) |-> h[r].volume],
            {r \in 1..Len(h) : h[r].vt_symbol = s})

TotalTurnover(h, s) ==
    SumOver([r \in 1..Len(h) |-> h[r].turnover],
            {r \in 1..Len(h) : h[r].vt_symbol = s})

-----------------------------------------------------------------------------
(* C1: an accepted tick that comes after an accepted tick of another       *)
(* minute-of-hour makes update_tick emit the whole in-progress BarSet      *)
(* once, every bar stamped with seconds and microseconds zero and holding  *)
(* nothing of the triggering tick (neither when on_bars sees it nor after  *)
(* the call), and leaves in progress exactly one bar, of the tick's        *)
(* instrument, with open = high = low = close = the tick's price and the   *)
(* tick's own timestamp; a tick of the same minute-of-hour emits nothing.  *)
C1_MinuteRollover ==
    (Len(feed) > 0 /\ Accepted(Call) /\ AcceptedTicks(Len(feed) - 1) # <<>>) =>
        LET tick == Call.arg
            before == Last(AcceptedTicks(Len(feed) - 1)).arg
        IN  IF before.datetime.minute # tick.datetime.minute
            THEN /\ Len(BarsEmitted) = 1
                 /\ BarsEmitted[1].dict = pre.bars
                 /\ BarsEmitted[1].seen =
                        [k \in DOMAIN InProgressBefore |->
                            [InProgressBefore[k] EXCEPT
                                !.datetime.second = 0,
                                !.datetime.microsecond = 0]]
                 /\ Resolve(heap, dicts[pre.bars]) = BarsEmitted[1].seen
                 /\ DOMAIN InProgress = {tick.vt_symbol}
                 /\ LET bar == InProgress[tick.vt_symbol]
                    IN  /\ bar.open_price = tick.last_price
                        /\ bar.high_price = tick.last_price
                        /\ bar.low_price = tick.last_price
                        /\ bar.close_price = tick.last_price
                        /\ bar.datetime = tick.datetime
            ELSE BarsEmitted = <<>>

(* The third tick of the example has arrived: a set with one bar stamped   *)
(* 10:00:00 was emitted by the tick of 10:01:02.                           *)
C1_Witness ==
    /\ Len(feed) = 3
    /\ \A i \in 1..3 : Accepted(feed[i]) /\ feed[i].arg.vt_symbol = "A"
    /\ feed[1].arg.datetime = DateTime(1, 10, 0, 5, 0)
    /\ feed[2].arg.datetime = DateTime(1, 10, 0, 40, 250)
    /\ feed[3].arg.datetime = DateTime(1, 10, 1, 2, 0)
    /\ Len(on_bars) = 1
    /\ DOMAIN on_bars[1].seen = {"A"}
    /\ on_bars[1].seen["A"].datetime = DateTime(1, 10, 0, 0, 0)
    /\ on_bars[1].seen["A"].close_price = feed[2].arg.last_price

-----------------------------------------------------------------------------
(* The cumulative volumes of the accepted ticks of instrument s so far. *)
VolumesOf(s) ==
    LET ticks == AcceptedTicksOf(s, Len(feed))
    IN  [i \in 1..Len(ticks) |-> ticks[i].arg.volume]

(* C2 as claimed: three accepted ticks of one instrument with cumulative   *)
(* volumes 100, 90, 150 add nothing, 0 and 50 to the instrument's bars:    *)
(* the volume of all its bars is 0 after the first, 0 after the second and *)
(* 50 after the third.                                                     *)
C2_ThirdTickAddsFifty ==
    \A s \in Symbols :
        /\ VolumesOf(s) = <<100>> => TotalVolume(heap, s) = 0
        /\ VolumesOf(s) = <<100, 90>> => TotalVolume(heap, s) = 0
        /\ VolumesOf(s) = <<100, 90, 150>> => TotalVolume(heap, s) = 50

(* C2 as amended: the three ticks add nothing, 0 and 60 (150 - 90: the     *)
(* difference to the tick just before, not to the highest value seen), so  *)
(* the volume of all the instrument's bars is 0, 0 and then 60, whatever   *)
(* else is fed in between and wherever the minutes roll over.              *)
C2_ThirdTickAddsSixty ==
    \A s \in Symbols :
        /\ VolumesOf(s) = <<100>> => TotalVolume(heap, s) = 0
        /\ VolumesOf(s) = <<100, 90>> => TotalVolume(heap, s) = 0
        /\ VolumesOf(s) = <<100, 90, 150>> => TotalVolume(heap, s) = 60

C2_Witness ==
    /\ VolumesOf("A") = <<100, 90, 150>>
    /\ TotalVolume(heap, "A") = 60
    /\ Len(on_bars) = 1

(* C3: an accepted tick adds to its instrument's in-progress bar           *)
(* max(0, cumulative value - that of the instrument's preceding accepted   *)
(* tick) of volume and of turnover, and nothing when the instrument has no *)
(* preceding accepted tick; no call lowers the volume or turnover of any   *)
(* bar, and none is ever negative.                                         *)
C3_ClampedIncrement ==
    Len(feed) > 0 =>
        /\ \A r \in 1..Len(heap) : heap[r].volume >= 0 /\ heap[r].turnover >= 0
        /\ \A r \in 1..Len(pre.heap) :
                /\ heap[r].volume >= pre.heap[r].volume
                /\ heap[r].turnover >= pre.heap[r].turnover
        /\ Accepted(Call) =>
            LET tick == Call.arg
                s == tick.vt_symbol
                prior == AcceptedTicksOf(s, Len(feed) - 1)
                dv == IF prior = <<>> THEN 0
                      ELSE Max(0, tick.volume - Last(prior).arg.volume)
                dt == IF prior = <<>> THEN 0
                      ELSE Max(0, tick.turnover - Last(prior).arg.turnover)
                continued == s \in DOMAIN InProgressBefore /\ BarsEmitted = <<>>
            IN  /\ InProgress[s].volume =
                       (IF continued THEN InProgressBefore[s].volume ELSE 0) + dv
                /\ InProgress[s].turnover =
                       (IF continued THEN InProgressBefore[s].turnover ELSE 0) + dt
                /\ TotalVolume(heap, s) = TotalVolume(pre.heap, s) + dv
                /\ TotalTurnover(heap, s) = TotalTurnover(pre.heap, s) + dt

(* A cumulative volume fell from 150 to 90 while the bar held 50. *)
C3_Witness ==
    /\ Len(feed) = 3
    /\ Accepted(Call)
    /\ Call.arg.volume = 90
    /\ Accepted(feed[2])
    /\ feed[2].arg.vt_symbol = Call.arg.vt_symbol
    /\ feed[2].arg.volume = 150
    /\ BarsEmitted = <<>>
    /\ InProgress[Call.arg.vt_symbol].volume = 50
    /\ InProgress[Call.arg.vt_symbol].turnover = 20

-----------------------------------------------------------------------------
(* The call during which on_bars received its k-th BarSet. *)
EmittedAt(k) ==
    CHOOSE i \in 1..Len(feed) :
        feed[i].on_bars >= k /\ (i = 1 \/ feed[i - 1].on_bars < k)

(* C4: the k-th BarSet on_bars receives holds a bar for exactly the        *)
(* instruments with an accepted tick since the call that emitted the       *)
(* (k-1)-th (that call's tick included), or since construction for the     *)
(* first; the tick that triggers the emission is not among them.           *)
C4_OnlyTickedInstruments ==
    \A k \in 1..Len(on_bars) :
        LET from == IF k = 1 THEN 1 ELSE EmittedAt(k - 1)
            upto == EmittedAt(k) - 1
        IN  DOMAIN on_bars[k].seen =
                {feed[j].arg.vt_symbol : j \in {i \in from..upto : Accepted(feed[i])}}

(* B was silent before the first emission and A before the second. *)
C4_Witness ==
    /\ Len(on_bars) = 2
    /\ DOMAIN on_bars[1].seen = {"A"}
    /\ DOMAIN on_bars[2].seen = {"B"}

-----------------------------------------------------------------------------
(* The generator's fields, the bars and the dicts are as before the call. *)
NothingChanged ==
    /\ [Self EXCEPT !.raised = ""] = [pre EXCEPT !.raised = ""]
    /\ BarsEmitted = <<>>
    /\ WindowBarsEmitted = <<>>

(* C5 as claimed: a tick with a non-positive or absent last price changes  *)
(* nothing and emits nothing.                                              *)
C5_NonPositiveIgnored ==
    (Len(feed) > 0 /\ IsTick(Call)
        /\ ("last_price" \notin DOMAIN Call.arg \/ Call.arg.last_price <= 0))
    => NothingChanged

(* C5 as amended: a tick with a zero or absent last price changes nothing  *)
(* and emits nothing; a tick with a negative last price is folded like any *)
(* other tick (it becomes the stored previous tick of its instrument and   *)
(* its timestamp the last-seen timestamp).                                 *)
C5_ZeroOrAbsentIgnored ==
    (Len(feed) > 0 /\ IsTick(Call)) =>
        /\ ("last_price" \notin DOMAIN Call.arg \/ Call.arg.last_price = 0)
              => NothingChanged
        /\ ("last_price" \in DOMAIN Call.arg /\ Call.arg.last_price < 0)
              => /\ last_dt = Call.arg.datetime
                 /\ Get(last_ticks, Call.arg.vt_symbol, None) = Call.arg
                 /\ InProgress[Call.arg.vt_symbol].close_price = Call.arg.last_price

(* A tick without a price arrived in another minute than the last-seen one. *)
C5_Witness ==
    /\ Len(feed) > 1
    /\ IsTick(Call)
    /\ "last_price" \notin DOMAIN Call.arg
    /\ pre.last_dt # None
    /\ pre.last_dt.minute # Call.arg.datetime.minute
    /\ DOMAIN InProgressBefore # {}

-----------------------------------------------------------------------------
(* Timestamps in calendar order. *)
Instant(dt) == <<dt.day, dt.hour, dt.minute, dt.second, dt.microsecond>>

RECURSIVE LexLess(_, _)
LexLess(a, b) ==
    /\ a # <<>>
    /\ \/ a[1] < b[1]
       \/ a[1] = b[1] /\ LexLess(Tail(a), Tail(b))

NotAfter(a, b) == ~LexLess(Instant(b), Instant(a))

EarlierMinute(a, b) ==
    LexLess(<<a.day, a.hour, a.minute>>, <<b.day, b.hour, b.minute>>)

TicksInOrder ==
    \A i, j \in 1..Len(feed) :
        i < j => NotAfter(feed[i].arg.datetime, feed[j].arg.datetime)

(* C6 as claimed: with ticks in time order, an accepted tick of a later    *)
(* wall-clock minute than the previous accepted tick makes update_tick     *)
(* emit the in-progress BarSet before the tick is folded.                  *)
C6_WallClockRollover ==
    (Len(feed) > 0 /\ TicksInOrder /\ Accepted(Call)
        /\ AcceptedTicks(Len(feed) - 1) # <<>>
        /\ EarlierMinute(Last(AcceptedTicks(Len(feed) - 1)).arg.datetime,
                         Call.arg.datetime))
    => /\ Len(BarsEmitted) = 1
       /\ DOMAIN InProgress = {Call.arg.vt_symbol}

-----------------------------------------------------------------------------
(* Vocabulary of the window stage *)

IsBars(c) == c.name = "update_bars"

(* The items of the BarSet given to the last call. *)
Given == Call.arg.given

GivenSymbols == {Given[i].vt_symbol : i \in 1..Len(Given)}

WindowSet == Resolve(heap, dicts[window_bars])

WindowSetBefore == Resolve(pre.heap, pre.dicts[pre.window_bars])

(* C7: with a window N >= 1, update_bars of a non-empty minute BarSet of   *)
(* minute value m returns normally and emits the window BarSet, once, iff  *)
(* (m + 1) mod N = 0; the emitted set is the in-progress window dict with  *)
(* this call's bar folded in for every instrument given, and the window    *)
(* set is empty afterwards; otherwise the window set holds the instruments *)
(* it held plus those given.  With N = 5 and BarSets of minute 0, 1, 2, 3, *)
(* 4 fed in order, on_window_bars has received nothing after each of the   *)
(* first four calls and one BarSet after the fifth.                        *)
C7_MinuteWindowBoundary ==
    (Len(feed) > 0 /\ interval = MINUTE /\ window >= 1 /\ IsBars(Call)
        /\ Given # <<>>) =>
        LET m == Given[1].datetime.minute
            closes == (m + 1) % window = 0
        IN  /\ raised = ""
            /\ Len(WindowBarsEmitted) = IF closes THEN 1 ELSE 0
            /\ closes =>
                /\ WindowBarsEmitted[1].dict = pre.window_bars
                /\ DOMAIN WindowBarsEmitted[1].seen =
                        DOMAIN WindowSetBefore \cup GivenSymbols
                /\ \A i \in 1..Len(Given) :
                    LET bar == Given[i]
                        s == bar.vt_symbol
                        out == WindowBarsEmitted[1].seen[s]
                    IN  /\ out.close_price = bar.close_price
                        /\ out.open_interest = bar.open_interest
                        /\ out.volume =
                            bar.volume + (IF s \in DOMAIN WindowSetBefore
                                          THEN WindowSetBefore[s].volume ELSE 0)
                        /\ out.high_price >= bar.high_price
                        /\ out.low_price <= bar.low_price
                /\ dicts[window_bars] = EmptyDict
            /\ ~closes =>
                DOMAIN WindowSet = DOMAIN WindowSetBefore \cup GivenSymbols
            /\ (window = 5 /\ Len(feed) <= 5 /\ InRun) =>
                Len(on_window_bars) = IF Len(feed) = 5 THEN 1 ELSE 0

(* The minute-4 BarSet closed the 5-minute window that began at minute 0,  *)
(* with both instruments in it.                                            *)
C7_Witness ==
    /\ interval = MINUTE
    /\ window = 5
    /\ Len(feed) = 5
    /\ InRun
    /\ Len(on_window_bars) = 1
    /\ WindowBarsEmitted # <<>>
    /\ DOMAIN on_window_bars[1].seen = {"A", "B"}
    /\ dicts[window_bars] = EmptyDict

-----------------------------------------------------------------------------
(* C8 as claimed: no update_tick or update_bars call ever runs on an       *)
(* instance with minute granularity and window size 0.                     *)
C8_ZeroWindowNeverUsed ==
    ~(interval = MINUTE /\ window = 0 /\ Len(feed) > 0)

(* C8 as amended: an instance with minute granularity and window size 0 is *)
(* constructed and used: update_tick returns normally on it and folds an   *)
(* accepted tick, and only update_bars fails, at the boundary test: with   *)
(* ZeroDivisionError after the given bars are folded into the window set   *)
(* (UnboundLocalError for an empty BarSet), never emitting a window set.   *)
C8_ZeroWindowFailsInUpdateBars ==
    (interval = MINUTE /\ window = 0 /\ Len(feed) > 0) =>
        IF IsTick(Call)
        THEN /\ raised = ""
             /\ Accepted(Call) =>
                    /\ last_dt = Call.arg.datetime
                    /\ Call.arg.vt_symbol \in DOMAIN InProgress
        ELSE /\ raised = IF Given = <<>> THEN "UnboundLocalError"
                         ELSE "ZeroDivisionError"
             /\ WindowBarsEmitted = <<>>
             /\ on_window_bars = <<>>
             /\ DOMAIN WindowSet = DOMAIN WindowSetBefore \cup GivenSymbols

(* A generator with window 0 folded a tick, then update_bars divided by    *)
(* zero with the given bar folded into the window set.                     *)
C8_Witness ==
    /\ interval = MINUTE
    /\ window = 0
    /\ Len(feed) = 2
    /\ Accepted(feed[1])
    /\ IsBars(Call)
    /\ raised = "ZeroDivisionError"
    /\ DOMAIN WindowSet = {"A"}

-----------------------------------------------------------------------------
(* The hour path *)

(* The in-progress hour bar of instrument s before the last call (Null if  *)
(* none).                                                                  *)
HourBarBefore(s) == Get(pre.hour_bars, s, Null)

HandedOff == SubSeq(on_hour_bars, Len(pre.on_hour_bars) + 1, Len(on_hour_bars))

(* The given bar of instrument s opens a new hour without a minute-59 bar. *)
IsGap(bar) ==
    /\ HourBarBefore(bar.vt_symbol) # Null
    /\ bar.datetime.minute # 59
    /\ bar.datetime.hour # pre.heap[HourBarBefore(bar.vt_symbol)].datetime.hour

IsLastMinute(bar) ==
    /\ HourBarBefore(bar.vt_symbol) # Null
    /\ bar.datetime.minute = 59

(* C9: a minute bar that is not of minute 59 and whose hour differs from   *)
(* that of its instrument's in-progress hour bar leaves that hour bar as   *)
(* it was, stages it and hands it off in the same call, and the            *)
(* instrument's in-progress hour bar becomes another bar, stamped at the   *)
(* incoming bar's hour, with the incoming bar's open, high, low, close,    *)
(* volume, turnover and open interest.                                     *)
C9_GapStagesHourBarAsIs ==
    (Len(feed) > 0 /\ interval = HOUR /\ IsBars(Call)) =>
        \A i \in 1..Len(Given) :
            IsGap(Given[i]) =>
                LET bar == Given[i]
                    s == bar.vt_symbol
                    old == HourBarBefore(s)
                    new == Get(hour_bars, s, Null)
                IN  /\ heap[old] = pre.heap[old]
                    /\ Len(HandedOff) = 1
                    /\ HandedOff[1].dict = pre.finished_hour_bars
                    /\ Get(dicts[HandedOff[1].dict], s, Null) = old
                    /\ HandedOff[1].seen[s] = pre.heap[old]
                    /\ new # Null
                    /\ new # old
                    /\ heap[new].vt_symbol = s
                    /\ heap[new].datetime.day = bar.datetime.day
                    /\ heap[new].datetime.hour = bar.datetime.hour
                    /\ heap[new].datetime.minute = 0
                    /\ heap[new].datetime.second = 0
                    /\ heap[new].datetime.microsecond = 0
                    /\ heap[new].open_price = bar.open_price
                    /\ heap[new].high_price = bar.high_price
                    /\ heap[new].low_price = bar.low_price
                    /\ heap[new].close_price = bar.close_price
                    /\ heap[new].volume = bar.volume
                    /\ heap[new].turnover = bar.turnover
                    /\ heap[new].open_interest = bar.open_interest

(* The hour-10 bar of A, opened at 10:30, was handed off by the bar of     *)
(* 11:00, which opened the hour-11 bar.                                    *)
C9_Witness ==
    /\ interval = HOUR
    /\ Len(feed) = 2
    /\ raised = ""
    /\ \E i \in 1..Len(Given) : IsGap(Given[i]) /\ Given[i].vt_symbol = "A"
    /\ HandedOff # <<>>
    /\ HandedOff[1].seen["A"].datetime = DateTime(1, 10, 0, 0, 0)
    /\ heap[Get(hour_bars, "A", Null)].datetime = DateTime(1, 11, 0, 0, 0)

(* C10: a minute-59 bar for an instrument with an in-progress hour bar is  *)
(* folded into it (high = max, low = min, close and open interest          *)
(* replaced, volume and turnover added), the hour bar is staged and handed *)
(* off in the same call and the instrument's slot is cleared; staging is   *)
(* handed off whenever it is not empty after the loop and is empty         *)
(* whenever update_bars returns; with window 1 the staged dict itself goes *)
(* to on_window_bars, unfolded, and the window BarSet and the counter are  *)
(* never touched.                                                          *)
C10_LastMinuteClosesHourBar ==
    (Len(feed) > 0 /\ interval = HOUR /\ IsBars(Call)) =>
        /\ \A i \in 1..Len(Given) :
            IsLastMinute(Given[i]) =>
                LET bar == Given[i]
                    s == bar.vt_symbol
                    old == HourBarBefore(s)
                    was == pre.heap[old]
                IN  /\ heap[old] =
                        [was EXCEPT
                            !.high_price = Max(was.high_price, bar.high_price),
                            !.low_price = Min(was.low_price, bar.low_price),
                            !.close_price = bar.close_price,
                            !.volume = was.volume + bar.volume,
                            !.turnover = was.turnover + bar.turnover,
                            !.open_interest = bar.open_interest]
                    /\ Get(hour_bars, s, Null) = Null
                    /\ Len(HandedOff) = 1
                    /\ HandedOff[1].dict = pre.finished_hour_bars
                    /\ Get(dicts[HandedOff[1].dict], s, Null) = old
                    /\ HandedOff[1].seen[s] = heap[old]
        /\ Len(HandedOff) =
            IF \/ pre.dicts[pre.finished_hour_bars] # EmptyDict
               \/ \E i \in 1..Len(Given) : IsLastMinute(Given[i]) \/ IsGap(Given[i])
            THEN 1 ELSE 0
        /\ raised = "" => dicts[finished_hour_bars] = EmptyDict
        /\ window = 1 =>
            /\ raised = ""
            /\ WindowBarsEmitted = HandedOff
            /\ dicts[window_bars] = EmptyDict
            /\ window_bars = pre.window_bars
            /\ interval_count = 0

(* With window 1, the 10:59 bar closed the hour bar of both instruments    *)
(* and on_window_bars received the two.                                    *)
C10_Witness ==
    /\ interval = HOUR
    /\ window = 1
    /\ Len(feed) = 2
    /\ \A i \in 1..Len(Given) : IsLastMinute(Given[i])
    /\ Len(WindowBarsEmitted) = 1
    /\ DOMAIN WindowBarsEmitted[1].seen = {"A", "B"}
    /\ WindowBarsEmitted[1].seen["A"].volume = 10
    /\ dicts[finished_hour_bars] = EmptyDict

-----------------------------------------------------------------------------
(* The N-hour window *)

(* The window bar that hour bar `bar` opens, and window bar `was` after    *)
(* `bar` is folded into it.                                                *)
Opened(bar) ==
    BarData(bar.vt_symbol, bar.datetime, NoInterval, bar.open_price,
            bar.high_price, bar.low_price, bar.close_price,
            bar.volume, bar.turnover, bar.open_interest)

Folded(was, bar) ==
    [was EXCEPT !.high_price = Max(@, bar.high_price),
                !.low_price = Min(@, bar.low_price),
                !.close_price = bar.close_price,
                !.volume = @ + bar.volume,
                !.turnover = @ + bar.turnover,
                !.open_interest = bar.open_interest]

(* The window set that results from folding the staged set into set W. *)
FoldedSet(W, staged) ==
    [s \in DOMAIN W \cup DOMAIN staged |->
        IF s \notin DOMAIN staged THEN W[s]
        ELSE IF s \in DOMAIN W THEN Folded(W[s], staged[s])
        ELSE Opened(staged[s])]

(* C11: on the hour path with a window N >= 2, a call of update_bars hands *)
(* off at most once; a hand-off folds the staged hour bars into the N-hour *)
(* window set and adds exactly one to the rollover counter, whatever the   *)
(* number of instruments staged; the window set goes to on_window_bars     *)
(* exactly when that makes the counter N, and then the window set is empty *)
(* and the counter 0; without a hand-off neither changes.  So one window   *)
(* set is emitted per N hand-offs, the counter is in 0..N-1, and it is 0   *)
(* iff the window set is empty.                                            *)
C11_HandOffCountsOnce ==
    (Len(feed) > 0 /\ interval = HOUR /\ window >= 2) =>
        /\ raised = ""
        /\ interval_count \in 0..(window - 1)
        /\ interval_count = 0 <=> dicts[window_bars] = EmptyDict
        /\ Len(on_window_bars) = Len(on_hour_bars) \div window
        /\ interval_count = Len(on_hour_bars) % window
        /\ Len(HandedOff) \in {0, 1}
        /\ HandedOff = <<>> =>
            /\ interval_count = pre.interval_count
            /\ WindowBarsEmitted = <<>>
            /\ window_bars = pre.window_bars
            /\ WindowSet = WindowSetBefore
        /\ HandedOff # <<>> =>
            LET folded == FoldedSet(WindowSetBefore, HandedOff[1].seen)
            IN  IF pre.interval_count + 1 = window
                THEN /\ Len(WindowBarsEmitted) = 1
                     /\ WindowBarsEmitted[1].dict = pre.window_bars
                     /\ WindowBarsEmitted[1].seen = folded
                     /\ interval_count = 0
                     /\ dicts[window_bars] = EmptyDict
                ELSE /\ WindowBarsEmitted = <<>>
                     /\ interval_count = pre.interval_count + 1
                     /\ window_bars = pre.window_bars
                     /\ WindowSet = folded

(* With window 2, the second hand-off emitted the window set: the hour-10  *)
(* bars of both instruments were handed off by the bars of 11:00, those of *)
(* hour 11 by the bars of 11:59, and the emitted bars span the two hours.  *)
C11_Witness ==
    /\ interval = HOUR
    /\ window = 2
    /\ Len(feed) = 3
    /\ Len(on_hour_bars) = 2
    /\ DOMAIN on_hour_bars[1].seen = {"A", "B"}
    /\ Len(WindowBarsEmitted) = 1
    /\ DOMAIN WindowBarsEmitted[1].seen = {"A", "B"}
    /\ WindowBarsEmitted[1].seen["A"].datetime = DateTime(1, 10, 0, 0, 0)
    /\ WindowBarsEmitted[1].seen["A"].volume = 15
    /\ interval_count = 0
    /\ dicts[window_bars] = EmptyDict

-----------------------------------------------------------------------------
(* Lockstep of the hour stage *)

(* The minute BarSets were given in non-decreasing time order. *)
BarSetsInOrder ==
    \A i, j \in 1..Len(feed) :
        (i < j /\ IsBars(feed[i]) /\ IsBars(feed[j])) =>
            \A a \in 1..Len(feed[i].arg.given) :
                \A b \in 1..Len(feed[j].arg.given) :
                    NotAfter(feed[i].arg.given[a].datetime,
                             feed[j].arg.given[b].datetime)

(* The bars of a BarSet carry one and the same timestamp. *)
OneTimestamp(set) == \A s, t \in DOMAIN set : set[s].datetime = set[t].datetime

(* C12 as claimed: on the hour path with a window N >= 1, fed minute       *)
(* BarSets in non-decreasing time order from which any instrument may be   *)
(* missing, every BarSet handed off from the hour stage holds only bars of *)
(* one and the same hour timestamp.                                        *)
C12_HandOffsShareHour ==
    (interval = HOUR /\ window >= 1 /\ BarSetsInOrder) =>
        \A k \in 1..Len(on_hour_bars) : OneTimestamp(on_hour_bars[k].seen)

-----------------------------------------------------------------------------
(* A callback that raises *)

(* The state the last call would have left had its callbacks returned. *)
HadReturned ==
    LET S0 == [pre EXCEPT !.raised = "", !.consumer = "returns"]
    IN  IF IsTick(Call)
        THEN update_tick(S0, Call.arg)
        ELSE update_bars(S0, Call.arg.dict)

BarSetOf(S, d) == Resolve(S.heap, S.dicts[d])

(* C14 as claimed: when a callback of the consumer raises, the in-progress *)
(* minute set, the in-progress window set, the rollover counter and the    *)
(* last-seen timestamp are what they would be had it returned, and no dict *)
(* is emitted by two calls.                                                *)
C14_ConsistentAtEmission ==
    /\ (Len(feed) > 0 /\ raised = "ConsumerError") =>
            /\ InProgress = BarSetOf(HadReturned, HadReturned.bars)
            /\ WindowSet = BarSetOf(HadReturned, HadReturned.window_bars)
            /\ interval_count = HadReturned.interval_count
            /\ last_dt = HadReturned.last_dt
    /\ \A i, j \in 1..Len(on_bars) :
            i < j => on_bars[i].dict # on_bars[j].dict
    /\ \A i, j \in 1..Len(on_window_bars) :
            i < j => on_window_bars[i].dict # on_window_bars[j].dict

-----------------------------------------------------------------------------
(* One window path per instance *)

(* C15: no call changes the granularity or the window size.  On an         *)
(* instance of minute granularity the hour bars and the staging set stay   *)
(* empty, the staging dict is never replaced, the rollover counter stays 0 *)
(* and nothing is handed off.  On an instance of any other granularity     *)
(* update_bars takes the hour path: every given bar has gone to its        *)
(* instrument's hour bar or to the staging set, an empty BarSet is no      *)
(* error, and without a hand-off the call returns normally, emits nothing  *)
(* and leaves the window set alone, whatever the minute of the bars and    *)
(* the window size.                                                        *)
C15_OneWindowPath ==
    Len(feed) > 0 =>
        /\ interval = pre.interval
        /\ window = pre.window
        /\ interval = MINUTE =>
            /\ hour_bars = EmptyDict
            /\ finished_hour_bars = Construct(window, interval).finished_hour_bars
            /\ dicts[finished_hour_bars] = EmptyDict
            /\ interval_count = 0
            /\ on_hour_bars = <<>>
        /\ (interval # MINUTE /\ IsBars(Call)) =>
            /\ raised # "UnboundLocalError"
            /\ \A s \in GivenSymbols :
                    \/ s \in Keys(hour_bars)
                    \/ HandedOff # <<>> /\ s \in DOMAIN HandedOff[1].seen
            /\ HandedOff = <<>> =>
                /\ raised = ""
                /\ WindowBarsEmitted = <<>>
                /\ window_bars = pre.window_bars
                /\ WindowSet = WindowSetBefore
                /\ interval_count = pre.interval_count

(* An instance of daily granularity with window 1 took a tick, opened an   *)
(* hour bar with the bar of 10:00, which the minute path would have        *)
(* emitted at once, and emitted nothing.                                   *)
C15_Witness ==
    /\ interval = DAILY
    /\ window = 1
    /\ Len(feed) = 2
    /\ IsTick(feed[1])
    /\ IsBars(Call)
    /\ Given # <<>>
    /\ Given[1].datetime.minute = 0
    /\ "A" \in Keys(hour_bars)
    /\ on_window_bars = <<>>
    /\ raised = ""

-----------------------------------------------------------------------------
(* The reference fold of the minute-window path *)

(* The call in which on_window_bars received its k-th BarSet. *)
WindowEmittedAt(k) ==
    CHOOSE i \in 1..Len(feed) :
        feed[i].on_window_bars >= k /\ (i = 1 \/ feed[i - 1].on_window_bars < k)

HasBarOf(c, s) ==
    IsBars(c) /\ \E i \in 1..Len(c.arg.given) : c.arg.given[i].vt_symbol = s

BarOf(c, s) ==
    c.arg.given[CHOOSE i \in 1..Len(c.arg.given) : c.arg.given[i].vt_symbol = s]

(* The minute bars of instrument s given to the calls from..to, in order. *)
MinuteBarsOf(s, from, to) ==
    LET calls == SelectSeq(SubSeq(feed, from, to), LAMBDA c : HasBarOf(c, s))
    IN  [n \in 1..Len(calls) |-> BarOf(calls[n], s)]

RECURSIVE Sum(_)
Sum(seq) == IF seq = <<>> THEN 0 ELSE Head(seq) + Sum(Tail(seq))

Highest(seq) == CHOOSE x \in {seq[i] : i \in 1..Len(seq)} :
                    \A i \in 1..Len(seq) : x >= seq[i]

Lowest(seq) == CHOOSE x \in {seq[i] : i \in 1..Len(seq)} :
                    \A i \in 1..Len(seq) : x <= seq[i]

(* The window bar of instrument s for the non-empty sequence bs of its     *)
(* minute bars.                                                            *)
ReferenceFold(s, bs) ==
    BarData(s, ReplaceSecond(bs[1].datetime), NoInterval,
            bs[1].open_price,
            Highest([i \in 1..Len(bs) |-> bs[i].high_price]),
            Lowest([i \in 1..Len(bs) |-> bs[i].low_price]),
            bs[Len(bs)].close_price,
            Sum([i \in 1..Len(bs) |-> bs[i].volume]),
            Sum([i \in 1..Len(bs) |-> bs[i].turnover]),
            bs[Len(bs)].open_interest)

(* C16: on the minute-window path, the k-th emitted window BarSet holds a  *)
(* bar for exactly the instruments with a minute bar in the calls after    *)
(* the one that emitted the (k-1)-th set (from the first call for k = 1)   *)
(* up to the emitting call, and each bar is the reference fold of those    *)
(* minute bars of its instrument: open of the first, highest high, lowest  *)
(* low, close and open interest of the last, volume and turnover summed,   *)
(* each counted once, stamped with the first bar's time truncated to the   *)
(* minute.                                                                 *)
C16_WindowBarIsReferenceFold ==
    interval = MINUTE =>
        \A k \in 1..Len(on_window_bars) :
            LET to == WindowEmittedAt(k)
                from == IF k = 1 THEN 1 ELSE WindowEmittedAt(k - 1) + 1
                seen == on_window_bars[k].seen
            IN  /\ DOMAIN seen =
                    {s \in Symbols : MinuteBarsOf(s, from, to) # <<>>}
                /\ \A s \in DOMAIN seen :
                    seen[s] = ReferenceFold(s, MinuteBarsOf(s, from, to))

(* With window 3, the bars of 10:00, 10:01:30 and 10:59 made one window    *)
(* set: A's bar folds three minute bars, the second with the wider range,  *)
(* B's bar only the one of 10:01:30, whose seconds are cut off.            *)
C16_Witness ==
    /\ interval = MINUTE
    /\ window = 3
    /\ Len(feed) = 3
    /\ Len(on_window_bars) = 1
    /\ DOMAIN on_window_bars[1].seen = {"A", "B"}
    /\ on_window_bars[1].seen["A"] =
            BarData("A", DateTime(1, 10, 0, 0, 0), NoInterval,
                    2, 5, 1, 2, 12, 110, 7)
    /\ on_window_bars[1].seen["B"] =
            BarData("B", DateTime(1, 10, 1, 0, 0), NoInterval,
                    2, 3, 1, 2, 5, 50, 7)

-----------------------------------------------------------------------------
(* The length of a minute window *)

(* Every call gave a non-empty minute BarSet, each of the minute after the *)
(* one before.                                                             *)
EveryMinute ==
    \A i \in 1..Len(feed) :
        /\ IsBars(feed[i])
        /\ feed[i].arg.given # <<>>
        /\ i > 1 => feed[i].arg.given[1].datetime =
                        NextMinuteOf(feed[i - 1].arg.given[1].datetime)

(* C17 as claimed: on the minute-window path with a window N >= 1, fed one *)
(* BarSet for every consecutive minute, every emitted window BarSet after  *)
(* the first aggregates exactly N minute BarSets, and once a window BarSet *)
(* has been emitted the set in progress never holds more than N.           *)
C17_WindowHoldsNMinutes ==
    (interval = MINUTE /\ window >= 1 /\ EveryMinute) =>
        /\ \A k \in 2..Len(on_window_bars) :
                WindowEmittedAt(k) - WindowEmittedAt(k - 1) = window
        /\ on_window_bars # <<>> =>
                Len(feed) - WindowEmittedAt(Len(on_window_bars)) <= window

-----------------------------------------------------------------------------
(* What has been handed over stays as it was *)

(* The BarSet behind dict d now. *)
Now(d) == Resolve(heap, dicts[d])

(* The dict and the bars the caller gave to call c are as the caller built *)
(* them.                                                                   *)
InputUntouched(c) ==
    LET d == dicts[c.arg.dict]
    IN  /\ Len(d) = Len(c.arg.given)
        /\ \A i \in 1..Len(d) :
            /\ d[i][1] = c.arg.given[i].vt_symbol
            /\ heap[d[i][2]] = c.arg.given[i]

(* C18: every BarSet the consumer has received through on_bars or          *)
(* on_window_bars still has the members and the bars, field by field, it   *)
(* had when it was received, whatever calls came after; and the minute     *)
(* bars given to update_bars are unchanged.                                *)
C18_EmittedSetsAreFrozen ==
    /\ \A k \in 1..Len(on_bars) : Now(on_bars[k].dict) = on_bars[k].seen
    /\ \A k \in 1..Len(on_window_bars) :
            Now(on_window_bars[k].dict) = on_window_bars[k].seen
    /\ \A i \in 1..Len(feed) : IsBars(feed[i]) => InputUntouched(feed[i])

(* The second tick of A emitted the minute set of 10:00 holding A's bar;   *)
(* the third was folded into another bar of A, in another dict.            *)
C18_Witness ==
    /\ Len(feed) = 3
    /\ \A i \in 1..3 : IsTick(feed[i]) /\ Accepted(feed[i])
                        /\ feed[i].arg.vt_symbol = "A"
    /\ feed[2].on_bars = 1
    /\ Len(on_bars) = 1
    /\ DOMAIN on_bars[1].seen = {"A"}
    /\ bars # on_bars[1].dict
    /\ DOMAIN InProgress = {"A"}
    /\ InProgress["A"].datetime # on_bars[1].seen["A"].datetime

-----------------------------------------------------------------------------
(* The timestamp of an emitted minute BarSet *)

(* C19 as claimed: with ticks in non-decreasing time order across the      *)
(* instruments, the bars of every BarSet update_tick emits carry one and   *)
(* the same timestamp, with zero seconds and microseconds.                 *)
C19_OneBoundaryTimestamp ==
    TicksInOrder =>
        \A k \in 1..Len(on_bars) :
            /\ OneTimestamp(on_bars[k].seen)
            /\ \A s \in DOMAIN on_bars[k].seen :
                /\ on_bars[k].seen[s].datetime.second = 0
                /\ on_bars[k].seen[s].datetime.microsecond = 0

-----------------------------------------------------------------------------
(* An emitted minute BarSet is never empty *)

(* C20: between calls the last-seen timestamp is set iff the in-progress   *)
(* minute BarSet holds a bar, every BarSet on_bars has received holds at   *)
(* least one bar, and an update_bars that on_bars passes the set on to has *)
(* a bar for its boundary test: it never fails for want of one, and with a *)
(* window N >= 1 no call fails at all.                                     *)
C20_NeverEmitsEmpty ==
    /\ last_dt # None <=> dicts[bars] # EmptyDict
    /\ \A k \in 1..Len(on_bars) : DOMAIN on_bars[k].seen # {}
    /\ raised # "UnboundLocalError"
    /\ window >= 1 => raised = ""

(* With on_bars wired to update_bars and window 1: a tick without a usable *)
(* price came first and left no timestamp, the tick of the next minute     *)
(* emitted nothing, and the one after it emitted the minute BarSet, which  *)
(* update_bars folded and emitted as a window BarSet.                      *)
C20_Witness ==
    /\ window = 1
    /\ Len(feed) = 3
    /\ ~Accepted(feed[1])
    /\ Accepted(feed[2])
    /\ feed[2].on_bars = 0
    /\ Accepted(feed[3])
    /\ Len(on_bars) = 1
    /\ Len(on_window_bars) = 1
    /\ DOMAIN on_window_bars[1].seen = DOMAIN on_bars[1].seen
    /\ DOMAIN on_bars[1].seen # {}
    /\ raised = ""

-----------------------------------------------------------------------------
(* Conservation of volume and turnover *)

TurnoversOf(s) ==
    LET ticks == AcceptedTicksOf(s, Len(feed))
    IN  [i \in 1..Len(ticks) |-> ticks[i].arg.turnover]

NonDecreasing(seq) == \A i, j \in 1..Len(seq) : i < j => seq[i] <= seq[j]

(* The volume (turnover) of instrument s in the BarSets on_bars has        *)
(* received so far, and in its bar in progress (0 if it has none).         *)
EmittedVolume(s) ==
    Sum([k \in 1..Len(on_bars) |->
            IF s \in DOMAIN on_bars[k].seen THEN on_bars[k].seen[s].volume ELSE 0])

EmittedTurnover(s) ==
    Sum([k \in 1..Len(on_bars) |->
            IF s \in DOMAIN on_bars[k].seen THEN on_bars[k].seen[s].turnover ELSE 0])

VolumeInProgress(s) == IF s \in DOMAIN InProgress THEN InProgress[s].volume ELSE 0

TurnoverInProgress(s) ==
    IF s \in DOMAIN InProgress THEN InProgress[s].turnover ELSE 0

====
